---- MODULE Spec2Model ----
(***************************************************************************)
(* A model of ivyprince (src/main.go): a listing of S3 objects is read     *)
(* line by line, every line is parsed into a FileStruct, the records are   *)
(* sorted by one of two time keys and reported.  src/main.go holds two     *)
(* versions of the program: the base one (lines 1-106, variant = 1) and    *)
(* the one that extracts a timestamp from the filename, regenerates rm.sh  *)
(* and sync.sh and writes results.json (lines 108-341, variant = 2).       *)
(*                                                                         *)
(* Text is held as TLA+ strings and read character by character.           *)
(* A time.Time is the record of its civil fields in UTC (time.Parse with   *)
(* a layout that has no zone yields UTC), an int64 is its canonical        *)
(* decimal text, a time.Duration is days, seconds of the day and           *)
(* nanoseconds with a sign.                                                *)
(***************************************************************************)
EXTENDS Integers, Sequences, FiniteSets, TLC

VARIABLES
    variant,    \* 1: main of lines 39-106, 2: main of lines 148-277
    sortBy,     \* *sortBy, the -sort flag
    sortOrder,  \* *sortOrder, the -order flag
    input,      \* the lines of the file named by -file
    now,        \* the wall clock read by time.Since
    pc,         \* the position of main
    lineNo,     \* the next line scanner.Scan() returns
    files,      \* var files []FileStruct
    repIdx,     \* the index of the range loop over files
    stdout,     \* what was printed with fmt.Println / fmt.Printf
    logged,     \* what was written with log.Printf / log.Println / log.Fatal
    rmsh,       \* the file rm.sh: Absent or the sequence of entries appended
    syncsh,     \* the file sync.sh, likewise
    results     \* the file results.json: Absent or the records marshalled

vars == <<variant, sortBy, sortOrder, input, now, pc, lineNo, files, repIdx,
          stdout, logged, rmsh, syncsh, results>>

-----------------------------------------------------------------------------
(* Characters and numbers *)

Char(s, i) == SubSeq(s, i, i)

Digits == {"0", "1", "2", "3", "4", "5", "6", "7", "8", "9"}

\* isDigit(s, i) of package time: false past the end of s
isDigit(s, i) == i >= 1 /\ i <= Len(s) /\ Char(s, i) \in Digits

DigitVal(c) ==
    CASE c = "0" -> 0 [] c = "1" -> 1 [] c = "2" -> 2 [] c = "3" -> 3
      [] c = "4" -> 4 [] c = "5" -> 5 [] c = "6" -> 6 [] c = "7" -> 7
      [] c = "8" -> 8 [] c = "9" -> 9

AllDigits(s) == \A i \in 1..Len(s) : Char(s, i) \in Digits

\* The value of a string of decimal digits (at most 9 of them here)
RECURSIVE Num(_)
Num(s) ==
    IF s = "" THEN 0
    ELSE Num(SubSeq(s, 1, Len(s) - 1)) * 10 + DigitVal(Char(s, Len(s)))

\* %d of a natural number
RECURSIVE IntStr(_)
IntStr(n) ==
    IF n < 10 THEN Char("0123456789", n + 1)
    ELSE IntStr(n \div 10) \o Char("0123456789", (n % 10) + 1)

\* %02d and %04d, as Format renders the fields of a time
Pad2(n) == IF n < 10 THEN "0" \o IntStr(n) ELSE IntStr(n)
Pad4(n) ==
    IF n < 10 THEN "000" \o IntStr(n)
    ELSE IF n < 100 THEN "00" \o IntStr(n)
    ELSE IF n < 1000 THEN "0" \o IntStr(n)
    ELSE IntStr(n)

\* unicode.IsSpace on the characters the listings hold
IsSpace(c) == c \in {" ", "\t"}

\* strings.Fields(line): the maximal runs of non-space characters
RECURSIVE FieldsFrom(_, _, _, _)
FieldsFrom(s, i, cur, acc) ==
    IF i > Len(s)
    THEN IF cur = "" THEN acc ELSE Append(acc, cur)
    ELSE IF IsSpace(Char(s, i))
         THEN FieldsFrom(s, i + 1, "", IF cur = "" THEN acc ELSE Append(acc, cur))
         ELSE FieldsFrom(s, i + 1, cur \o Char(s, i), acc)

Fields(s) == FieldsFrom(s, 1, "", <<>>)

\* strings.Join(fields[k:], " ")
RECURSIVE JoinFrom(_, _)
JoinFrom(fields, k) ==
    IF k > Len(fields) THEN ""
    ELSE IF k = Len(fields) THEN fields[k]
    ELSE fields[k] \o " " \o JoinFrom(fields, k + 1)

-----------------------------------------------------------------------------
(* strconv.ParseInt(s, 10, 64) *)

RECURSIVE StripZeros(_)
StripZeros(s) ==
    IF Len(s) > 1 /\ Char(s, 1) = "0" THEN StripZeros(SubSeq(s, 2, Len(s))) ELSE s

\* a <= b for two digit strings of the same length
RECURSIVE DigitsLeq(_, _)
DigitsLeq(a, b) ==
    IF a = "" THEN TRUE
    ELSE IF DigitVal(Char(a, 1)) < DigitVal(Char(b, 1)) THEN TRUE
    ELSE IF DigitVal(Char(a, 1)) > DigitVal(Char(b, 1)) THEN FALSE
    ELSE DigitsLeq(SubSeq(a, 2, Len(a)), SubSeq(b, 2, Len(b)))

MaxInt64Digits == "9223372036854775807"
MinInt64Digits == "9223372036854775808"

\* The magnitude against the range of int64: 2^63 - 1, or 2^63 below zero
InRange(neg, mag, limit) ==
    Len(mag) < Len(limit) \/ (Len(mag) = Len(limit) /\ DigitsLeq(mag, limit))

ParseMagnitude(neg, body, mag) ==
    IF body = "" \/ ~AllDigits(body)
           \/ ~InRange(neg, mag, IF neg THEN MinInt64Digits ELSE MaxInt64Digits)
    THEN [ok |-> FALSE, val |-> "0"]
    ELSE [ok |-> TRUE, val |-> IF neg /\ mag # "0" THEN "-" \o mag ELSE mag]

ParseSigned(neg, body) == ParseMagnitude(neg, body, StripZeros(body))

\* [ok, val]: val is the int64 as its canonical decimal text
ParseInt(s) ==
    IF Len(s) >= 1 /\ Char(s, 1) \in {"+", "-"}
    THEN ParseSigned(Char(s, 1) = "-", SubSeq(s, 2, Len(s)))
    ELSE ParseSigned(FALSE, s)

-----------------------------------------------------------------------------
(* time.Parse *)

ZeroTime == [year |-> 1, month |-> 1, day |-> 1, hour |-> 0, min |-> 0, sec |-> 0, nsec |-> 0]

IsLeap(y) == y % 4 = 0 /\ (y % 100 # 0 \/ y % 400 = 0)

daysIn(m, y) ==
    IF m = 2 THEN (IF IsLeap(y) THEN 29 ELSE 28)
    ELSE IF m \in {4, 6, 9, 11} THEN 30 ELSE 31

\* The layouts of the program as the chunks nextStdChunk cuts them into
LayoutS3   == <<"2006", "-", "01", "-", "02", " ", "15", ":", "04", ":", "05">>
LayoutFile == <<"2006", "01", "02", "_", "15", "04", "05">>

\* getnum(s, fixed): [ok, n, rest]
getnum(s, fixed) ==
    IF ~isDigit(s, 1) THEN [ok |-> FALSE, n |-> 0, rest |-> s]
    ELSE IF ~isDigit(s, 2)
         THEN IF fixed THEN [ok |-> FALSE, n |-> 0, rest |-> s]
              ELSE [ok |-> TRUE, n |-> DigitVal(Char(s, 1)), rest |-> SubSeq(s, 2, Len(s))]
         ELSE [ok |-> TRUE, n |-> Num(SubSeq(s, 1, 2)), rest |-> SubSeq(s, 3, Len(s))]

\* The digits that follow position 1 of s (a '.' or ','), as Parse counts them
RECURSIVE DigitRun(_, _)
DigitRun(s, n) == IF isDigit(s, n + 1) THEN DigitRun(s, n + 1) ELSE n

RECURSIVE Pow10(_)
Pow10(k) == IF k = 0 THEN 1 ELSE 10 * Pow10(k - 1)

\* parseNanoseconds(value, nbytes): at most nine digits count
parseNanoseconds(s, nbytes) ==
    Num(SubSeq(s, 2, IF nbytes > 10 THEN 10 ELSE nbytes))
        * Pow10(10 - (IF nbytes > 10 THEN 10 ELSE nbytes))

\* The parse state st = [ok, rest, t] after a failed chunk
Bad(st) == [st EXCEPT !.ok = FALSE]

\* case stdLongYear: four characters, the first a digit, atoi of the four
ParseYear(st, v) ==
    IF Len(v) < 4 \/ ~isDigit(v, 1) \/ ~AllDigits(SubSeq(v, 1, 4)) THEN Bad(st)
    ELSE [st EXCEPT !.rest = SubSeq(v, 5, Len(v)), !.t.year = Num(SubSeq(v, 1, 4))]

\* A number g read by getnum into the field of the time, with its range lo..hi
\* (the day is checked against its month once the whole value is read)
TakeNum(st, g, fld, lo, hi) ==
    IF ~g.ok \/ g.n < lo \/ hi < g.n THEN Bad(st)
    ELSE [st EXCEPT !.rest = g.rest, !.t[fld] = g.n]

ReadFraction(st, r, n) ==
    [st EXCEPT !.rest = SubSeq(r, n + 1, Len(r)), !.t.nsec = parseNanoseconds(r, n)]

\* case stdSecond: a fractional second the layout does not name is read too
TakeFraction(st, r) ==
    IF st.ok /\ Len(r) >= 2 /\ Char(r, 1) \in {".", ","} /\ isDigit(r, 2)
    THEN ReadFraction(st, r, DigitRun(r, 1))
    ELSE st

TakeSecond(st) == TakeFraction(st, st.rest)

\* A literal of the layout: the value must start with it
TakeLiteral(st, v, chunk) ==
    IF Len(v) >= Len(chunk) /\ SubSeq(v, 1, Len(chunk)) = chunk
    THEN [st EXCEPT !.rest = SubSeq(v, Len(chunk) + 1, Len(v))]
    ELSE Bad(st)

\* One chunk of the layout applied to the parse state
ParseChunk(chunk, st) ==
    CASE chunk = "2006" -> ParseYear(st, st.rest)
      [] chunk = "01" -> TakeNum(st, getnum(st.rest, TRUE), "month", 1, 12)
      [] chunk = "02" -> TakeNum(st, getnum(st.rest, TRUE), "day", 0, 99)
      [] chunk = "15" -> TakeNum(st, getnum(st.rest, FALSE), "hour", 0, 23)
      [] chunk = "04" -> TakeNum(st, getnum(st.rest, TRUE), "min", 0, 59)
      [] chunk = "05" -> TakeSecond(TakeNum(st, getnum(st.rest, TRUE), "sec", 0, 59))
      [] OTHER -> TakeLiteral(st, st.rest, chunk)

RECURSIVE ParseChunks(_, _, _)
ParseChunks(layout, k, st) ==
    IF ~st.ok \/ k > Len(layout) THEN st
    ELSE ParseChunks(layout, k + 1, ParseChunk(layout[k], st))

\* The end of Parse: no text may be left, and the day must exist in its month
Validate(st) ==
    IF ~st.ok THEN [ok |-> FALSE, t |-> ZeroTime]
    ELSE IF st.rest # "" THEN [ok |-> FALSE, t |-> ZeroTime]
    ELSE IF st.t.day < 1 \/ st.t.day > daysIn(st.t.month, st.t.year)
         THEN [ok |-> FALSE, t |-> ZeroTime]
    ELSE [ok |-> TRUE, t |-> st.t]

\* time.Parse(layout, value): [ok, t]
TimeParse(layout, value) ==
    Validate(ParseChunks(layout, 1, [ok |-> TRUE, rest |-> value, t |-> ZeroTime]))

\* t.Format("2006-01-02 15:04:05")
TimeFormat(t) ==
    Pad4(t.year) \o "-" \o Pad2(t.month) \o "-" \o Pad2(t.day) \o " " \o
    Pad2(t.hour) \o ":" \o Pad2(t.min) \o ":" \o Pad2(t.sec)

\* t.Before(u)
TimeKey(t) == <<t.year, t.month, t.day, t.hour, t.min, t.sec, t.nsec>>

RECURSIVE TupleLess(_, _, _)
TupleLess(a, b, k) ==
    IF k > Len(a) THEN FALSE
    ELSE IF a[k] < b[k] THEN TRUE
    ELSE IF a[k] > b[k] THEN FALSE
    ELSE TupleLess(a, b, k + 1)

Before(t, u) == TupleLess(TimeKey(t), TimeKey(u), 1)

-----------------------------------------------------------------------------
(* extractFileTimestamp *)

\* Whether `(\d{8}_\d{6})` matches filename at position i
PatternAt(filename, i) ==
    /\ \A j \in 0..7 : isDigit(filename, i + j)
    /\ Char(filename, i + 8) = "_"
    /\ \A j \in 9..14 : isDigit(filename, i + j)

MatchStarts(filename) == {i \in 1..Len(filename) : PatternAt(filename, i)}

Least(S) == CHOOSE m \in S : \A o \in S : m <= o

MatchFrom(filename, starts) ==
    IF starts = {} THEN "" ELSE SubSeq(filename, Least(starts), Least(starts) + 14)

Greatest(S) == CHOOSE m \in S : \A o \in S : o <= m

\* The last match taken for the first
FindLastSubmatch(filename) ==
    IF MatchStarts(filename) = {} THEN ""
    ELSE SubSeq(filename, Greatest(MatchStarts(filename)), Greatest(MatchStarts(filename)) + 14)

\* regex.FindStringSubmatch(filename)[0]: the leftmost match, "" for nil
FindStringSubmatch(filename) == MatchFrom(filename, MatchStarts(filename))

\* Lines 293-298: the match parsed, or the error return
ParsedMatch(p, s3Timestamp) ==
    IF ~p.ok THEN [ok |-> FALSE, t |-> s3Timestamp] ELSE [ok |-> TRUE, t |-> p.t]

\* Lines 288-302
FromMatch(match, s3Timestamp) ==
    IF match # "" THEN ParsedMatch(TimeParse(LayoutFile, match), s3Timestamp)
    ELSE [ok |-> TRUE, t |-> s3Timestamp]

\* extractFileTimestamp(filename, s3Timestamp): [ok, t]; ~ok is the error return
extractFileTimestamp(filename, s3Timestamp) ==
    FromMatch(FindStringSubmatch(filename), s3Timestamp)

-----------------------------------------------------------------------------
(* time.Since and formatRelativeTime *)

SecondsPerDay == 86400
NanosPerSecond == 1000000000

\* math.MaxInt64 nanoseconds, the largest time.Duration, as days, seconds, nanoseconds
MaxDurationDays == 106751
MaxDurationSecs == 85636
MaxDurationNanos == 854775807

\* The day number of a civil date (years 0..9999; day 0 is 1 March of year -400)
DayOf(y, m, d) ==
    365 * y + (y \div 4) - (y \div 100) + (y \div 400) + ((153 * m + 2) \div 5) + (d - 1)

DayNo(t) ==
    DayOf((IF t.month <= 2 THEN t.year - 1 ELSE t.year) + 400,
          IF t.month > 2 THEN t.month - 3 ELSE t.month + 9,
          t.day)

SecOfDay(t) == t.hour * 3600 + t.min * 60 + t.sec

\* A Duration, [neg, days, secs, nsec]: the magnitude and its sign, saturated
\* at the largest (2^63 - 1 ns) and the smallest (-2^63 ns) value
Saturated(neg, d, s, n, maxN) ==
    IF TupleLess(<<MaxDurationDays, MaxDurationSecs, maxN>>, <<d, s, n>>, 1)
    THEN [neg |-> neg, days |-> MaxDurationDays, secs |-> MaxDurationSecs, nsec |-> maxN]
    ELSE [neg |-> neg, days |-> d, secs |-> s, nsec |-> n]

\* Borrow from the days when the seconds are below zero
CarrySecs(neg, d, s, n) ==
    IF s < 0
    THEN Saturated(neg, d - 1, s + SecondsPerDay, n,
                   IF neg THEN MaxDurationNanos + 1 ELSE MaxDurationNanos)
    ELSE Saturated(neg, d, s, n, IF neg THEN MaxDurationNanos + 1 ELSE MaxDurationNanos)

\* Borrow from the seconds when the nanoseconds are below zero
CarryNanos(neg, d, s, n) ==
    IF n < 0 THEN CarrySecs(neg, d, s - 1, n + NanosPerSecond)
    ELSE CarrySecs(neg, d, s, n)

Magnitude(neg, dd, ds, dn) ==
    IF neg THEN CarryNanos(neg, -dd, -ds, -dn) ELSE CarryNanos(neg, dd, ds, dn)

Difference(dd, ds, dn) ==
    Magnitude(dd < 0 \/ (dd = 0 /\ ds < 0) \/ (dd = 0 /\ ds = 0 /\ dn < 0), dd, ds, dn)

\* t.Sub(u)
Sub(t, u) == Difference(DayNo(t) - DayNo(u), SecOfDay(t) - SecOfDay(u), t.nsec - u.nsec)

\* time.Since(t) is time.Now().Sub(t)
Since(clock, t) == Sub(clock, t)

\* int(duration.Hours()), int(duration.Minutes()): the conversion truncates
\* toward zero, so a negative duration gives the negated counts of its magnitude
Signed(d, n) == IF d.neg THEN -n ELSE n
IntHours(d)   == Signed(d, d.days * 24 + (d.secs \div 3600))
IntMinutes(d) == Signed(d, d.days * 1440 + (d.secs \div 60))

\* Go's integer division and %: both truncate toward zero
GoDiv(a, b) == IF a < 0 THEN -((-a) \div b) ELSE a \div b
GoMod(a, b) == IF a < 0 THEN -((-a) % b) ELSE a % b

\* The four components of formatRelativeTime (lines 306-310).
\* int(duration.Seconds()) % 60 is taken on the seconds of the day: the days
\* contribute a multiple of 60.
RelDays(d)    == GoDiv(IntHours(d), 24)
RelHours(d)   == GoMod(IntHours(d), 24)
RelMinutes(d) == GoMod(IntMinutes(d), 60)
RelSeconds(d) == GoMod(Signed(d, d.secs), 60)

\* Lines 312-326
RelativeText(days, hours, minutes, seconds) ==
    (IF days > 0 THEN IntStr(days) \o "d " ELSE "") \o
    (IF hours > 0 THEN IntStr(hours) \o "h " ELSE "") \o
    (IF minutes > 0 THEN IntStr(minutes) \o "m " ELSE "") \o
    (IF seconds > 0 THEN IntStr(seconds) \o "s" ELSE "")

FormatDuration(duration) ==
    RelativeText(RelDays(duration), RelHours(duration), RelMinutes(duration),
                 RelSeconds(duration))

formatRelativeTime(clock, timestamp) == FormatDuration(Since(clock, timestamp))

-----------------------------------------------------------------------------
(* The sort: sort.Sort over ByTimestamp / ByS3ModificationTime *)

ByTimestampLess(f, i, j) == Before(f[i].FileTimestamp, f[j].FileTimestamp)

\* A mix-up of the two keys: -sort s3 ordering by the content timestamp
ByS3ModificationTimeLessMixed(f, i, j) == Before(f[i].FileTimestamp, f[j].FileTimestamp)

ByS3ModificationTimeLess(f, i, j) == Before(f[i].S3ModificationTime, f[j].S3ModificationTime)

\* The Less of the interface handed to sort.Sort; sort.Reverse swaps its arguments
KeyLess(f, a, b, by) ==
    IF by = "timestamp" THEN ByTimestampLess(f, a, b) ELSE ByS3ModificationTimeLess(f, a, b)

Less(f, i, j, by, reverse) ==
    IF reverse THEN KeyLess(f, j, i, by) ELSE KeyLess(f, i, j, by)

Swap(f, i, j) == [f EXCEPT ![i] = f[j], ![j] = f[i]]

\* sort.Sort on a slice of at most 12 elements is insertionSort:
\*   for i := a + 1; i < b; i++ {
\*       for j := i; j > a && data.Less(j, j-1); j-- { data.Swap(j, j-1) } }
RECURSIVE Sift(_, _, _, _)
Sift(f, j, by, reverse) ==
    IF j > 1 /\ Less(f, j, j - 1, by, reverse)
    THEN Sift(Swap(f, j, j - 1), j - 1, by, reverse)
    ELSE f

RECURSIVE InsertionSort(_, _, _, _)
InsertionSort(f, i, by, reverse) ==
    IF i > Len(f) THEN f
    ELSE InsertionSort(Sift(f, i, by, reverse), i + 1, by, reverse)

\* The order tested the other way round: everything but "asc" descends
IsDescUnlessAsc(order) == order # "asc"

\* if *sortOrder == "desc" { sort.Reverse(...) }
IsDesc(order) == order = "desc"

\* The switch of lines 83-98 / 198-213 for a valid key
SortFiles(f, by, order) == InsertionSort(f, 2, by, IsDesc(order))

ValidSortKeys == {"timestamp", "s3"}

-----------------------------------------------------------------------------
(* The body of the parsing loop *)

\* Filename: fields[3] (line 73)
FilenameBase(fields) == fields[4]

\* The filename cut at its first space, as the base program has it
FilenameFirstField(fields) == IF Len(fields) >= 4 THEN fields[4] ELSE ""

\* filename := strings.Join(fields[3:], " ") (line 178)
FilenameJoined(fields) == JoinFrom(fields, 4)

NoRecord ==
    [S3ModificationTime |-> ZeroTime, FileSize |-> "0", Filename |-> "",
     FileTimestamp |-> ZeroTime]

Outcome(kind, rec, msg) == [kind |-> kind, rec |-> rec, msg |-> msg]

Record(ts, size, filename, fileTimestamp) ==
    Outcome("record",
            [S3ModificationTime |-> ts, FileSize |-> size, Filename |-> filename,
             FileTimestamp |-> fileTimestamp], "")

Panic == Outcome("panic", NoRecord, "index out of range")

\* Lines 180-190: the content timestamp ft of the filename, or the line skipped
WithFileTimestamp(ts, size, filename, ft) ==
    IF ~ft.ok THEN Outcome("skip", NoRecord, "Error extracting file timestamp")
    ELSE Record(ts.t, size.val, filename, ft.t)

WithFilename(ts, size, filename) ==
    WithFileTimestamp(ts, size, filename, extractFileTimestamp(filename, ts.t))

\* Lines 64-75 (v = 1) and 173-190 (v = 2), size being the result of ParseInt.
\* fields[3] is an index out of range on three fields; fields[3:] is empty.
WithSize(v, fields, ts, size) ==
    IF ~size.ok THEN Outcome("skip", NoRecord, "Error parsing file size")
    ELSE IF v = 1
         THEN IF Len(fields) < 4 THEN Panic
              ELSE Record(ts.t, size.val, FilenameBase(fields), ts.t)
         ELSE WithFilename(ts, size, FilenameJoined(fields))

\* Lines 58-64 and 167-173, ts being the result of time.Parse.
\* fields[2] is an index out of range on two fields.
WithTimestamp(v, fields, ts) ==
    IF ~ts.ok THEN Outcome("skip", NoRecord, "Error parsing timestamp")
    ELSE IF Len(fields) < 3 THEN Panic
    ELSE WithSize(v, fields, ts, ParseInt(fields[3]))

\* fields[0] and fields[1] are indices out of range on fewer than two fields
ParseFields(v, fields) ==
    IF Len(fields) < 2 THEN Panic
    ELSE WithTimestamp(v, fields, TimeParse(LayoutS3, fields[1] \o " " \o fields[2]))

\* One pass of the loop body on `line`: lines 55-75 (v = 1), lines 164-190 (v = 2).
\* kind "record": rec is appended; "skip": msg is logged and the loop continues;
\* "panic": an index of fields is out of range and the runtime ends the process.
ParseLine(v, line) == ParseFields(v, Fields(line))

-----------------------------------------------------------------------------
(* The files the program writes *)

Absent == [exists |-> FALSE, entries |-> <<>>]

WriteTo(file, entry) == [exists |-> TRUE, entries |-> Append(file.entries, entry)]

\* What an earlier run left in rm.sh or sync.sh
OldEntry ==
    [comment |-> [mtime |-> "2020-01-01 00:00:00", size |-> "1", name |-> "old.mp4",
                  age |-> "1d "],
     command |-> "aws s3 rm 's3://streamboxdineorb/old.mp4'"]
OldScript == [exists |-> TRUE, entries |-> <<OldEntry>>]

\* strings.ReplaceAll(s, "'", "'\"'\"'")
RECURSIVE QuoteFrom(_, _)
QuoteFrom(s, i) ==
    IF i > Len(s) THEN ""
    ELSE (IF Char(s, i) = "'" THEN "'\"'\"'" ELSE Char(s, i)) \o QuoteFrom(s, i + 1)

\* The text after the prefix of the report line and of the two comments
\* (lines 242-243, 246-247, 252-253).  humanize.Bytes renders the size; the
\* model carries the size itself.
ReportText(file, relativeTime) ==
    [mtime |-> TimeFormat(file.S3ModificationTime), size |-> file.FileSize,
     name |-> file.Filename, age |-> relativeTime]

RmCommand(file) == "aws s3 rm 's3://streamboxdineorb/" \o QuoteFrom(file.Filename, 1) \o "'"

SyncCommand(file) ==
    "aws s3 sync 's3://streamboxdineorb' /tmp/video --exclude='*' --include='"
        \o file.Filename \o "'"

-----------------------------------------------------------------------------
(* The steps of main *)

\* for scanner.Scan() { ... }: one line
ScanLine ==
    /\ pc = "scan"
    /\ lineNo <= Len(input)
    /\ \E o \in {ParseLine(variant, input[lineNo])} :
           /\ lineNo' = lineNo + 1
           /\ files' = IF o.kind = "record" THEN Append(files, o.rec) ELSE files
           /\ logged' = IF o.kind = "record" THEN logged
                        ELSE Append(logged, <<o.msg, lineNo>>)
           /\ pc' = IF o.kind = "panic" THEN "panic" ELSE "scan"
    /\ UNCHANGED <<variant, sortBy, sortOrder, input, now, repIdx, stdout, rmsh,
                   syncsh, results>>

\* scanner.Scan() returns false at the end of the file and scanner.Err() is nil
ScanEnd ==
    /\ pc = "scan"
    /\ lineNo > Len(input)
    /\ pc' = "sort"
    /\ UNCHANGED <<variant, sortBy, sortOrder, input, now, lineNo, files, repIdx,
                   stdout, logged, rmsh, syncsh, results>>

\* A read fails: Scan returns false, scanner.Err() is not nil, log.Fatal
ScanFail ==
    /\ pc = "scan"
    /\ pc' = "fatal"
    /\ logged' = Append(logged, <<"scanner error", lineNo>>)
    /\ UNCHANGED <<variant, sortBy, sortOrder, input, now, lineNo, files, repIdx,
                   stdout, rmsh, syncsh, results>>

\* The switch without its default case: an unknown key leaves files unsorted
SortStepNoDefault ==
    /\ pc = "sort"
    /\ files' = IF sortBy \in ValidSortKeys THEN SortFiles(files, sortBy, sortOrder) ELSE files
    /\ pc' = IF variant = 1 THEN "header" ELSE "remove"
    /\ UNCHANGED <<variant, sortBy, sortOrder, input, now, lineNo, repIdx, stdout,
                   logged, rmsh, syncsh, results>>

\* switch *sortBy { ... }
SortStep ==
    /\ pc = "sort"
    /\ IF sortBy \in ValidSortKeys
       THEN /\ files' = SortFiles(files, sortBy, sortOrder)
            /\ pc' = IF variant = 1 THEN "header" ELSE "remove"
            /\ logged' = logged
       ELSE /\ files' = files
            /\ pc' = "fatal"
            /\ logged' = Append(logged, <<"Invalid sort option", 0>>)
    /\ UNCHANGED <<variant, sortBy, sortOrder, input, now, lineNo, repIdx, stdout,
                   rmsh, syncsh, results>>

\* The loop over filePaths left out: the scripts are appended to
NotRemoved(file) == file

\* One pass of the loop over filePaths: os.Stat, then os.Remove when it exists
Removed(file) == Absent

RemoveNote(file, path) ==
    <<IF file.exists THEN "Deleted file" ELSE "File does not exist", path>>

\* for _, filePath := range filePaths { ... }: both files
RemoveScripts ==
    /\ pc = "remove"
    /\ rmsh' = Removed(rmsh)
    /\ syncsh' = Removed(syncsh)
    /\ logged' = logged \o <<RemoveNote(rmsh, 1), RemoveNote(syncsh, 2)>>
    /\ pc' = "header"
    /\ UNCHANGED <<variant, sortBy, sortOrder, input, now, lineNo, files, repIdx,
                   stdout, results>>

\* os.Stat or os.Remove fails on the k-th path: the paths before it are done
RemoveFail ==
    /\ pc = "remove"
    /\ \E k \in 1..2 :
          /\ rmsh' = IF k > 1 THEN Removed(rmsh) ELSE rmsh
          /\ logged' = (IF k > 1 THEN Append(logged, RemoveNote(rmsh, 1)) ELSE logged)
                          \o <<<<"remove error", k>>>>
    /\ pc' = "fatal"
    /\ UNCHANGED <<variant, sortBy, sortOrder, input, now, lineNo, files, repIdx,
                   stdout, syncsh, results>>

\* fmt.Println("Sorted Files:")
PrintHeader ==
    /\ pc = "header"
    /\ stdout' = Append(stdout, [kind |-> "text", text |-> "Sorted Files:"])
    /\ repIdx' = 1
    /\ pc' = "report"
    /\ UNCHANGED <<variant, sortBy, sortOrder, input, now, lineNo, files, logged,
                   rmsh, syncsh, results>>

\* Lines 102-105: the loop body of the base program.  humanize.Time renders
\* the content timestamp; the model carries the timestamp itself.
PrintRecordBase ==
    /\ pc = "report"
    /\ variant = 1
    /\ repIdx <= Len(files)
    /\ stdout' = Append(stdout,
                   [kind |-> "report",
                    text |-> ReportText(files[repIdx], TimeFormat(files[repIdx].FileTimestamp))])
    /\ repIdx' = repIdx + 1
    /\ UNCHANGED <<variant, sortBy, sortOrder, input, now, pc, lineNo, files, logged,
                   rmsh, syncsh, results>>

\* The write to rm.sh skipped for a record
PrintRecordSkipRm ==
    /\ pc = "report"
    /\ variant = 2
    /\ repIdx <= Len(files)
    /\ stdout' = Append(stdout,
                   [kind |-> "report",
                    text |-> ReportText(files[repIdx],
                                        formatRelativeTime(now, files[repIdx].FileTimestamp))])
    /\ pc' = "sync"
    /\ UNCHANGED <<variant, sortBy, sortOrder, input, now, lineNo, files, repIdx,
                   logged, rmsh, syncsh, results>>

\* Lines 241-243: relativeTime and the report line
PrintRecord ==
    /\ pc = "report"
    /\ variant = 2
    /\ repIdx <= Len(files)
    /\ stdout' = Append(stdout,
                   [kind |-> "report",
                    text |-> ReportText(files[repIdx],
                                        formatRelativeTime(now, files[repIdx].FileTimestamp))])
    /\ pc' = "rm"
    /\ UNCHANGED <<variant, sortBy, sortOrder, input, now, lineNo, files, repIdx,
                   logged, rmsh, syncsh, results>>

\* The age printed for the record being reported (relativeTime is computed
\* once, at line 241)
CurrentAge == stdout[Len(stdout)].text.age

\* Lines 246-249: writeToFile("rm.sh", comment+rmCommand)
WriteRm ==
    /\ pc = "rm"
    /\ rmsh' = WriteTo(rmsh, [comment |-> ReportText(files[repIdx], CurrentAge),
                              command |-> RmCommand(files[repIdx])])
    /\ pc' = "sync"
    /\ UNCHANGED <<variant, sortBy, sortOrder, input, now, lineNo, files, repIdx,
                   stdout, logged, syncsh, results>>

\* Lines 252-255: writeToFile("sync.sh", comment+syncCommand)
WriteSync ==
    /\ pc = "sync"
    /\ syncsh' = WriteTo(syncsh, [comment |-> ReportText(files[repIdx], CurrentAge),
                                  command |-> SyncCommand(files[repIdx])])
    /\ repIdx' = repIdx + 1
    /\ pc' = "report"
    /\ UNCHANGED <<variant, sortBy, sortOrder, input, now, lineNo, files, stdout,
                   logged, rmsh, results>>

\* writeToFile: os.OpenFile or WriteString fails, log.Fatalf
WriteFail ==
    /\ pc \in {"rm", "sync"}
    /\ logged' = Append(logged, <<"Failed to open file", repIdx>>)
    /\ pc' = "fatal"
    /\ UNCHANGED <<variant, sortBy, sortOrder, input, now, lineNo, files, repIdx,
                   stdout, rmsh, syncsh, results>>

\* The range loop is over: the base program returns, the other goes on to the dump
ReportEnd ==
    /\ pc = "report"
    /\ repIdx > Len(files)
    /\ pc' = IF variant = 1 THEN "done" ELSE "json"
    /\ UNCHANGED <<variant, sortBy, sortOrder, input, now, lineNo, files, repIdx,
                   stdout, logged, rmsh, syncsh, results>>

\* Lines 259-276: json.MarshalIndent(files), os.Create, Write, Println
WriteResults ==
    /\ pc = "json"
    /\ results' = [exists |-> TRUE, entries |-> files]
    /\ stdout' = Append(stdout, [kind |-> "text", text |-> "Results saved to results.json"])
    /\ pc' = "done"
    /\ UNCHANGED <<variant, sortBy, sortOrder, input, now, lineNo, files, repIdx,
                   logged, rmsh, syncsh>>

\* os.Create fails (results.json is as it was) or Write fails (it is empty)
ResultsFail ==
    /\ pc = "json"
    /\ \E created \in BOOLEAN :
          results' = IF created THEN [exists |-> TRUE, entries |-> <<>>] ELSE results
    /\ logged' = Append(logged, <<"Failed to write results", 0>>)
    /\ pc' = "fatal"
    /\ UNCHANGED <<variant, sortBy, sortOrder, input, now, lineNo, files, repIdx,
                   stdout, rmsh, syncsh>>

Next ==
    \/ ScanLine
    \/ ScanEnd
    \/ ScanFail
    \/ SortStep
    \/ RemoveScripts
    \/ RemoveFail
    \/ PrintHeader
    \/ PrintRecordBase
    \/ PrintRecord
    \/ WriteRm
    \/ WriteSync
    \/ WriteFail
    \/ ReportEnd
    \/ WriteResults
    \/ ResultsFail

-----------------------------------------------------------------------------
(* The inputs *)

\* The longest listing of Spec and of SpecParse
MaxLines == 3
MaxParseLines == 2

RECURSIVE SeqsUpTo(_, _)
SeqsUpTo(S, n) ==
    IF n = 0 THEN {<<>>}
    ELSE LET shorter == SeqsUpTo(S, n - 1)
         IN  shorter \cup {Append(q, x) : q \in {r \in shorter : Len(r) = n - 1}, x \in S}

\* Listings for the whole program: three records whose modification times
\* and content timestamps are ordered oppositely, a line with a bad date and
\* an empty line
LineA == "2023-03-01 10:00:00 1024 video_20230115_083000.mp4"
LineB == "2023-02-01 09:00:00 2048 video.mp4"
LineC == "2023-01-10 07:00:00 512 my clip 20230401_120000.mov"
LineBadDate == "2023-02-30 08:30:00 10 x.mp4"
LineEmpty == ""

MainLines == {LineA, LineB, LineC, LineBadDate, LineEmpty}

\* Listings for the parsing loop
ParseLines ==
    {LineA, LineB, LineEmpty,
     "2023-01-15 08:30:00 77 a  b.mp4",
     "  2023-01-15\t08:30:00   12  it's  a\tb.mp4  ",
     "2023-01-15 8:30:00 5 h.mp4",
     "2023-01-15 08:30:00.25 +007 x120230115_083000_20240101_000000",
     "2023-01-15 08:30:00 1 clip_99999999_999999_20230115_083000.mp4",
     "2023-13-01 08:30:00 10 x.mp4",
     "2023-01-15 24:00:00 10 x.mp4",
     "2023-01-15 08:30:00 12x x.mp4",
     "2023-01-15 08:30:00 9223372036854775808 x.mp4",
     "2023-01-15 08:30:00 -9223372036854775808 x.mp4",
     "2023-01-15 08:30:00 1024",
     "2023-01-15 08:30:00",
     "bad-date 08:30:00",
     "garbage"}

Orders == {"asc", "desc", "ASC"}
SortKeys == {"timestamp", "s3", "name"}

Clock == [year |-> 2026, month |-> 11, day |-> 2, hour |-> 12, min |-> 0, sec |-> 0, nsec |-> 0]

InitWith(listings, keys, orders, clocks, scripts) ==
    /\ variant \in {1, 2}
    /\ sortBy \in keys
    /\ sortOrder \in orders
    /\ input \in listings
    /\ now \in clocks
    /\ pc = "scan"
    /\ lineNo = 1
    /\ files = <<>>
    /\ repIdx = 0
    /\ stdout = <<>>
    /\ logged = <<>>
    /\ rmsh \in scripts
    /\ syncsh = rmsh
    /\ results = Absent

\* After flag.Parse and os.Open: any flags, any listing, rm.sh and sync.sh
\* both there from an earlier run or both absent
Init == InitWith(SeqsUpTo(MainLines, MaxLines), SortKeys, Orders, {Clock}, {Absent, OldScript})

Spec == Init /\ [][Next]_vars

\* The default flags over the listings for the parsing loop
InitParse == InitWith(SeqsUpTo(ParseLines, MaxParseLines), {"timestamp"}, {"asc"}, {Clock}, {Absent})

SpecParse == InitParse /\ [][Next]_vars

\* One listing line per age of the content timestamp, read at Clock: no age,
\* a second, a minute, an hour, a day, each unit at once, a year, more than
\* the 292 years a Duration holds, and a timestamp still to come
RelStamps ==
    {"20261102_120000", "20261102_115959", "20261102_115900", "20261102_110000",
     "20261101_120000", "20261101_105859", "20251102_120000", "20261102_000001",
     "17000101_000000", "20270101_000000"}

RelLines == {"2026-11-01 00:00:00 1 f_" \o stamp \o ".mp4" : stamp \in RelStamps}

InitRel == InitWith({<<l>> : l \in RelLines}, {"timestamp"}, {"asc"}, {Clock}, {Absent})

SpecRel == InitRel /\ [][Next]_vars

-----------------------------------------------------------------------------
(* The lines of a listing, as the claims speak of them *)

Count(S) == Cardinality(S)

\* The lines the loop has been through
Done == IF pc = "scan" THEN lineNo - 1 ELSE IF pc = "panic" THEN lineNo - 2 ELSE Len(input)

\* The line whose pass ended the process with a panic
PanicLine == input[lineNo - 1]

\* The first two fields form a timestamp time.Parse accepts, the third an int64
TimestampOk(line) ==
    /\ Len(Fields(line)) >= 2
    /\ TimeParse(LayoutS3, Fields(line)[1] \o " " \o Fields(line)[2]).ok

SizeOk(line) == Len(Fields(line)) >= 3 /\ ParseInt(Fields(line)[3]).ok

Malformed(line) == ~TimestampOk(line) \/ ~SizeOk(line)

WellParsed(line) == ~Malformed(line)

\* The lines, among those the loop has been through, that are well parsed
WellParsedDone == {i \in 1..Done : WellParsed(input[i])}

\* The k-th smallest element of a set of numbers
RECURSIVE Kth(_, _)
Kth(S, k) == IF k = 1 THEN Least(S) ELSE Kth(S \ {Least(S)}, k - 1)

\* C1: every line whose first two fields are no timestamp or whose third field
\* is no 64-bit integer adds no record, does not end the process, and the
\* records collected are exactly those of the other lines, in input order.
C1Claim ==
    /\ pc = "panic" => ~Malformed(PanicLine)
    /\ pc \in {"scan", "sort"} =>
          /\ Len(files) = Count(WellParsedDone)
          /\ \A k \in 1..Len(files) :
                LET line == input[Kth(WellParsedDone, k)]
                IN  /\ files[k].S3ModificationTime =
                          TimeParse(LayoutS3, Fields(line)[1] \o " " \o Fields(line)[2]).t
                    /\ files[k].FileSize = ParseInt(Fields(line)[3]).val

Short(line) == Len(Fields(line)) < 4
LongDone == {i \in 1..Done : ~Short(input[i])}

\* C2: a line with fewer than 4 fields is dropped (no record, no output entry)
\* and the program goes on with the lines after it.
C2Claim ==
    /\ pc = "panic" => ~Short(PanicLine)
    /\ pc \in {"scan", "sort"} => Len(files) <= Count(LongDone)

-----------------------------------------------------------------------------
(* The sort *)

\* The key -sort selects, as a tuple ordered field by field
SortKey(rec, by) ==
    IF by = "timestamp" THEN TimeKey(rec.FileTimestamp) ELSE TimeKey(rec.S3ModificationTime)

Occurrences(f, x) == Cardinality({i \in DOMAIN f : f[i] = x})

IsPermutation(f, g) ==
    /\ Len(f) = Len(g)
    /\ \A i \in DOMAIN f : Occurrences(f, f[i]) = Occurrences(g, f[i])

NonDecreasing(f, by) ==
    \A i \in 1..(Len(f) - 1) : ~TupleLess(SortKey(f[i + 1], by), SortKey(f[i], by), 1)

NonIncreasing(f, by) ==
    \A i \in 1..(Len(f) - 1) : ~TupleLess(SortKey(f[i], by), SortKey(f[i + 1], by), 1)

Sorting == pc = "sort" /\ sortBy \in ValidSortKeys

\* C3: the sort step leaves a permutation of the parsed records in which the
\* selected key (-sort timestamp: content timestamp, -sort s3: modification
\* time) never decreases under -order asc and never increases under -order desc.
C3Sorted ==
    [][Sorting =>
          /\ IsPermutation(files, files')
          /\ sortOrder = "asc" => NonDecreasing(files', sortBy)
          /\ sortOrder = "desc" => NonIncreasing(files', sortBy)]_vars

\* Three records read in ascending order of modification time have been
\* sorted by it descending: T3, T2, T1
C3Witness ==
    /\ pc \in {"header", "remove"}
    /\ variant = 2
    /\ sortBy = "s3"
    /\ sortOrder = "desc"
    /\ input = <<LineC, LineB, LineA>>
    /\ Len(files) = 3
    /\ \A i \in 1..2 : Before(files[i + 1].S3ModificationTime, files[i].S3ModificationTime)

\* C4: with a -sort that is neither "timestamp" nor "s3" the process ends at
\* the sort step and nothing is ever printed, removed, appended or created.
C4NoOutput ==
    [][sortBy \notin ValidSortKeys =>
          /\ pc = "sort" => pc' = "fatal"
          /\ stdout' = <<>>
          /\ rmsh' = rmsh
          /\ syncsh' = syncsh
          /\ results' = Absent]_vars

\* An unknown key ended a run that had parsed records and found old scripts
C4Witness ==
    /\ pc = "fatal"
    /\ sortBy = "name"
    /\ Len(files) = 2
    /\ lineNo > Len(input)
    /\ rmsh = OldScript
    /\ stdout = <<>>

\* C10: only -sort can be a fatal configuration error; with a valid key every
\* -order but the exact "desc" sorts as -order asc does, ascending.
C10OrderLenient ==
    [][pc = "sort" =>
          /\ pc' = "fatal" => sortBy \notin ValidSortKeys
          /\ (sortBy \in ValidSortKeys /\ sortOrder # "desc") =>
                /\ files' = SortFiles(files, sortBy, "asc")
                /\ NonDecreasing(files', sortBy)]_vars

\* -order ASC has sorted three records, read in descending order of the
\* content timestamp, ascending
C10Witness ==
    /\ pc \in {"header", "remove"}
    /\ variant = 2
    /\ sortBy = "timestamp"
    /\ sortOrder = "ASC"
    /\ input = <<LineC, LineB, LineA>>
    /\ Len(files) = 3
    /\ \A i \in 1..2 : Before(files[i].FileTimestamp, files[i + 1].FileTimestamp)

-----------------------------------------------------------------------------
(* The scripts and the report *)

Reports == SelectSeq(stdout, LAMBDA e : e.kind = "report")

Describes(text, file) ==
    /\ text.mtime = TimeFormat(file.S3ModificationTime)
    /\ text.size = file.FileSize
    /\ text.name = file.Filename

\* C7: the program of lines 148-277 removes rm.sh and sync.sh before the first
\* append, so nothing of an earlier run is ever in a script once the report
\* has begun, and after a normal run each holds one entry per parsed record.
C7Regenerated ==
    (variant = 2 /\ stdout # <<>>) =>
        /\ \A i \in DOMAIN rmsh.entries : rmsh.entries[i] # OldEntry
        /\ \A i \in DOMAIN syncsh.entries : syncsh.entries[i] # OldEntry
        /\ pc = "done" => /\ Len(rmsh.entries) = Len(files)
                          /\ Len(syncsh.entries) = Len(files)

\* A normal run over two records that found the scripts of an earlier run
C7Witness ==
    /\ variant = 2
    /\ pc = "done"
    /\ Len(files) = 2
    /\ \E i \in DOMAIN logged : logged[i] = <<"Deleted file", 1>>
    /\ \E i \in DOMAIN logged : logged[i] = <<"Deleted file", 2>>
    /\ Len(rmsh.entries) = 2

\* C9: the k-th report line, the k-th entry of rm.sh, the k-th entry of
\* sync.sh and the k-th element of results.json are all of the k-th sorted
\* record; a record's entry goes to rm.sh, then to sync.sh, then the next
\* record is reported; results.json comes after the last record.
C9InOrder ==
    (variant = 2 /\ stdout # <<>>) =>
        /\ Len(Reports) <= Len(files)
        /\ Len(syncsh.entries) <= Len(rmsh.entries)
        /\ Len(rmsh.entries) <= Len(Reports)
        /\ Len(Reports) <= Len(syncsh.entries) + 1
        /\ \A k \in DOMAIN Reports : Describes(Reports[k].text, files[k])
        /\ \A k \in DOMAIN rmsh.entries :
              /\ Describes(rmsh.entries[k].comment, files[k])
              /\ rmsh.entries[k].command = RmCommand(files[k])
        /\ \A k \in DOMAIN syncsh.entries :
              /\ Describes(syncsh.entries[k].comment, files[k])
              /\ syncsh.entries[k].command = SyncCommand(files[k])
        /\ results.exists => /\ pc \in {"done", "fatal"}
                             /\ Len(syncsh.entries) = Len(files)
        /\ pc = "done" => results = [exists |-> TRUE, entries |-> files]

\* The second of three records has its entry in rm.sh and not yet in sync.sh
C9Witness ==
    /\ variant = 2
    /\ pc = "sync"
    /\ Len(files) = 3
    /\ Len(Reports) = 2
    /\ Len(rmsh.entries) = 2
    /\ Len(syncsh.entries) = 1
    /\ ~results.exists

-----------------------------------------------------------------------------
(* The content timestamp *)

\* The least i >= from at which name holds 8 digits, '_' and 6 digits; 0 if none
RECURSIVE StampFrom(_, _)
StampFrom(name, from) ==
    IF from + 14 > Len(name) THEN 0
    ELSE IF /\ \A j \in 0..14 : j # 8 => Char(name, from + j) \in Digits
            /\ Char(name, from + 8) = "_"
         THEN from
         ELSE StampFrom(name, from + 1)

FirstStamp(name) == StampFrom(name, 1)

\* The stamp at i read as YYYYMMDD_HHMMSS
StampTime(name, i) ==
    [year  |-> Num(SubSeq(name, i, i + 3)),
     month |-> Num(SubSeq(name, i + 4, i + 5)),
     day   |-> Num(SubSeq(name, i + 6, i + 7)),
     hour  |-> Num(SubSeq(name, i + 9, i + 10)),
     min   |-> Num(SubSeq(name, i + 11, i + 12)),
     sec   |-> Num(SubSeq(name, i + 13, i + 14)),
     nsec  |-> 0]

MonthLengths == <<31, 28, 31, 30, 31, 30, 31, 31, 30, 31, 30, 31>>

LeapYear(y) == (y % 400 = 0) \/ (y % 4 = 0 /\ y % 100 # 0)

\* A date and a time of day that exist
ValidCivil(t) ==
    /\ t.month \in 1..12
    /\ t.day >= 1
    /\ t.day <= MonthLengths[t.month] + (IF t.month = 2 /\ LeapYear(t.year) THEN 1 ELSE 0)
    /\ t.hour < 24 /\ t.min < 60 /\ t.sec < 60

\* The filename of a line: its text from the fourth field on
NameOf(line) == JoinFrom(Fields(line), 4)

\* The content timestamp the claim gives a record
ContentOf(rec) ==
    IF FirstStamp(rec.Filename) > 0
    THEN StampTime(rec.Filename, FirstStamp(rec.Filename))
    ELSE rec.S3ModificationTime

\* C5 as stated: every line whose timestamp and size parse yields a record,
\* whose content timestamp is the first 8-digit, '_', 6-digit substring of
\* the filename read as YYYYMMDD_HHMMSS, or else the modification timestamp.
C5Claim ==
    (variant = 2 /\ pc \in {"scan", "sort"}) =>
        /\ Len(files) = Count(WellParsedDone)
        /\ \A k \in DOMAIN files : files[k].FileTimestamp = ContentOf(files[k])

\* A line that yields a record: timestamp and size parse, and the first
\* stamp of the filename, if there is one, is a date and a time that exist
Extractable(line) ==
    /\ WellParsed(line)
    /\ FirstStamp(NameOf(line)) > 0 =>
          ValidCivil(StampTime(NameOf(line), FirstStamp(NameOf(line))))

ExtractableDone == {i \in 1..Done : Extractable(input[i])}

\* C5 amended: in the program that extracts timestamps, a line whose
\* timestamp and size parse yields a record unless the first stamp of its
\* filename is no valid date and time (the line is then skipped, whatever
\* follows in the filename); the record's content timestamp is that first
\* stamp, or the modification timestamp when the filename holds no stamp.
C5Amended ==
    (variant = 2 /\ pc \in {"scan", "sort"}) =>
        /\ Len(files) = Count(ExtractableDone)
        /\ \A k \in DOMAIN files :
              /\ files[k].Filename = NameOf(input[Kth(ExtractableDone, k)])
              /\ files[k].FileTimestamp = ContentOf(files[k])

StampSkipLine == "2023-01-15 08:30:00 1 clip_99999999_999999_20230115_083000.mp4"
TwoStampLine == "2023-01-15 08:30:00.25 +007 x120230115_083000_20240101_000000"

\* A line whose first stamp is no date was skipped, and a line with two
\* stamps got the first of them
C5Witness ==
    /\ variant = 2
    /\ pc = "sort"
    /\ input = <<StampSkipLine, TwoStampLine>>
    /\ Len(files) = 1
    /\ files[1].FileTimestamp.year = 2023
    /\ files[1].S3ModificationTime.nsec = 250000000
    /\ \E i \in DOMAIN logged : logged[i] = <<"Error extracting file timestamp", 1>>

-----------------------------------------------------------------------------
(* The fields of a record against the text of its line *)

RECURSIVE SkipSpaces(_, _)
SkipSpaces(s, i) == IF i <= Len(s) /\ IsSpace(Char(s, i)) THEN SkipSpaces(s, i + 1) ELSE i

RECURSIVE SkipWord(_, _)
SkipWord(s, i) == IF i <= Len(s) /\ ~IsSpace(Char(s, i)) THEN SkipWord(s, i + 1) ELSE i

\* Where the k-th word of s starts
RECURSIVE WordStart(_, _)
WordStart(s, k) ==
    IF k = 1 THEN SkipSpaces(s, 1)
    ELSE SkipSpaces(s, SkipWord(s, WordStart(s, k - 1)))

Word(s, k) == SubSeq(s, WordStart(s, k), SkipWord(s, WordStart(s, k)) - 1)

RECURSIVE TrimRight(_)
TrimRight(s) ==
    IF s # "" /\ IsSpace(Char(s, Len(s))) THEN TrimRight(SubSeq(s, 1, Len(s) - 1)) ELSE s

\* The text of the line after the size field and the space that ends it
TextAfterSize(line) == TrimRight(SubSeq(line, WordStart(line, 4), Len(line)))

\* The text with every run of spaces and tabs made one space
RECURSIVE Collapse(_, _)
Collapse(s, i) ==
    IF i > Len(s) THEN ""
    ELSE IF IsSpace(Char(s, i))
         THEN " " \o Collapse(s, SkipSpaces(s, i))
         ELSE Char(s, i) \o Collapse(s, i + 1)

\* YYYY-MM-DD and HH:MM:SS, digit for digit
DateShaped(w) ==
    /\ Len(w) = 10
    /\ \A i \in {1, 2, 3, 4, 6, 7, 9, 10} : Char(w, i) \in Digits
    /\ Char(w, 5) = "-" /\ Char(w, 8) = "-"

ClockShaped(w) ==
    /\ Len(w) = 8
    /\ \A i \in {1, 2, 4, 5, 7, 8} : Char(w, i) \in Digits
    /\ Char(w, 3) = ":" /\ Char(w, 6) = ":"

LiteralTime(line) ==
    [year  |-> Num(SubSeq(Word(line, 1), 1, 4)),
     month |-> Num(SubSeq(Word(line, 1), 6, 7)),
     day   |-> Num(SubSeq(Word(line, 1), 9, 10)),
     hour  |-> Num(SubSeq(Word(line, 2), 1, 2)),
     min   |-> Num(SubSeq(Word(line, 2), 4, 5)),
     sec   |-> Num(SubSeq(Word(line, 2), 7, 8)),
     nsec  |-> 0]

\* A size of at most nine digits is read here digit by digit
LiteralSize(line) ==
    IF Len(Word(line, 3)) <= 9 /\ AllDigits(Word(line, 3))
    THEN IntStr(Num(Word(line, 3)))
    ELSE ParseInt(Word(line, 3)).val

\* A valid timestamp, an integer size and a filename
WellFormed(line) ==
    /\ DateShaped(Word(line, 1))
    /\ ClockShaped(Word(line, 2))
    /\ ValidCivil(LiteralTime(line))
    /\ ParseInt(Word(line, 3)).ok
    /\ Word(line, 4) # ""

\* The loop takes a well-formed line and appends a record
TakesWellFormed ==
    /\ pc = "scan"
    /\ lineNo <= Len(input)
    /\ WellFormed(input[lineNo])
    /\ Len(files') = Len(files) + 1

NewRecord == files'[Len(files')]

\* C6 as stated: the record of a well-formed line has the modification time,
\* the size and the filename that stand on the line, the filename being
\* exactly the text after the size field, spaces and runs of spaces included.
C6Claim ==
    [][TakesWellFormed =>
          /\ NewRecord.S3ModificationTime = LiteralTime(input[lineNo])
          /\ NewRecord.FileSize = LiteralSize(input[lineNo])
          /\ NewRecord.Filename = TextAfterSize(input[lineNo])]_vars

\* C6 amended: the record of a well-formed line has the modification time and
\* the size that stand on the line; its filename is the fourth field alone in
\* the base program, and in the other the text after the size field with
\* every run of whitespace made a single space.
C6Amended ==
    [][TakesWellFormed =>
          /\ NewRecord.S3ModificationTime = LiteralTime(input[lineNo])
          /\ NewRecord.FileSize = LiteralSize(input[lineNo])
          /\ NewRecord.Filename =
                IF variant = 1 THEN Word(input[lineNo], 4)
                ELSE Collapse(TextAfterSize(input[lineNo]), 1)]_vars

\* A filename written with two spaces and a tab came out with single spaces
C6Witness ==
    /\ variant = 2
    /\ pc = "scan"
    /\ lineNo = 2
    /\ input[1] = "  2023-01-15\t08:30:00   12  it's  a\tb.mp4  "
    /\ Len(files) = 1
    /\ files[1].Filename = "it's a b.mp4"
    /\ files[1].FileSize = "12"

-----------------------------------------------------------------------------
(* The age *)

CumulativeDays == <<0, 31, 59, 90, 120, 151, 181, 212, 243, 273, 304, 334>>

\* The days from 1 January of year 0 to the date of t
CivilDays(t) ==
    365 * t.year + ((t.year + 3) \div 4) - ((t.year + 99) \div 100)
        + ((t.year + 399) \div 400)
        + CumulativeDays[t.month] + (IF t.month > 2 /\ LeapYear(t.year) THEN 1 ELSE 0)
        + (t.day - 1)

\* The whole seconds from t to the clock, t not after it, as days and
\* seconds of the day
SecondsApart(dd, ds) ==
    IF ds < 0 THEN [days |-> dd - 1, secs |-> ds + 86400] ELSE [days |-> dd, secs |-> ds]

Elapsed(t) ==
    SecondsApart(CivilDays(now) - CivilDays(t),
                 (now.hour * 3600 + now.min * 60 + now.sec)
                    - (t.hour * 3600 + t.min * 60 + t.sec)
                    - (IF now.nsec < t.nsec THEN 1 ELSE 0))

\* The components of an age, greater than zero, in the order d, h, m, s
Breakdown(e) ==
    SelectSeq(<<<<e.days, "d">>, <<e.secs \div 3600, "h">>,
                <<(e.secs % 3600) \div 60, "m">>, <<e.secs % 60, "s">>>>,
              LAMBDA c : c[1] > 0)

\* The numbers of a rendered age with their units
RECURSIVE AgeTokens(_, _, _, _)
AgeTokens(s, i, n, acc) ==
    IF i > Len(s) THEN acc
    ELSE IF Char(s, i) \in Digits
         THEN AgeTokens(s, i + 1, n * 10 + DigitVal(Char(s, i)), acc)
    ELSE IF IsSpace(Char(s, i)) THEN AgeTokens(s, i + 1, n, acc)
    ELSE AgeTokens(s, i + 1, 0, Append(acc, <<n, Char(s, i)>>))

\* C8: for a content timestamp in the past the age is the elapsed whole
\* seconds as days, hours (0..23), minutes (0..59) and seconds (0..59), the
\* components greater than zero printed in that order, none negative.
C8Claim ==
    variant = 2 =>
        \A k \in DOMAIN Reports :
            ~Before(now, files[k].FileTimestamp) =>
                AgeTokens(Reports[k].text.age, 1, 0, <<>>)
                    = Breakdown(Elapsed(files[k].FileTimestamp))

====
